---- MODULE Spec2Model ----
(***************************************************************************)
(* Model of the KL Recycling dataset pipeline:                             *)
(*   ml_training/process_data.py            (entry "process_data")         *)
(*   ml_training/scripts/data_processor.py  (entry "data_processor")       *)
(*   ml_training/colab_training.py          (entry "colab")                *)
(* The stratified split is sklearn's train_test_split(stratify=...); its   *)
(* allocation (_approximate_mode) and per-class cut are modelled as the    *)
(* library computes them, the random generator as one draw "r" that fixes  *)
(* the tie-breaks and the permutations.                                    *)
(***************************************************************************)
EXTENDS Integers, Sequences, FiniteSets, TLC

VARIABLES
    entry,      \* which entry point runs
    tree,       \* source tree: sequence of samples, grouped by directory
    pc,         \* position of the run
    run,        \* number of the current run (1 = first)
    all_data,   \* collected sample ids (process_data.py all_data, colab all_files)
    yolo_data,  \* ids of the rows handed to the splitter
    bbox_data,  \* id -> label record written by the exporter
    train_df, temp_df, val_df, test_df,   \* the splitter's frames (sequences of ids)
    files,      \* export directory: path -> content
    todo,       \* writes the current export loop still has to do
    result,     \* what the run returned ("none" while running)
    rng42,      \* the draw RandomState(42) makes (fixed, unknown)
    prev,       \* split and files at the end of the previous run
    clock,      \* wall clock (seconds) read by datetime.now()
    box, dims, label,  \* normalizer: input box, image dimensions, output
    log,        \* per-sample messages the run printed or logged
    thresholds, \* quality_control thresholds and min_resolution of the configuration
    image_files,        \* images the assessor or validator still has to look at
    quality_metrics,    \* what _assess_image_quality returned last
    validation_results, \* validate_dataset's counters and issues
    dataset_path,       \* root of the corpus handed to validate_dataset
    dirs                \* the directories that exist, as paths from the working directory

vars == <<entry, tree, pc, run, all_data, yolo_data, bbox_data, train_df,
          temp_df, val_df, test_df, files, todo, result, rng42, prev, clock,
          box, dims, label, log, thresholds, image_files, quality_metrics,
          validation_results, dataset_path, dirs>>

\* the state of the quality assessor and the validator
assessVars == <<thresholds, image_files, quality_metrics, validation_results,
               dataset_path, dirs>>

----------------------------------------------------------------------------
(* Bounds *)
MaxBig   == 16   \* entries of the largest category of a split manifest
MaxMid   == 7    \* entries of each of the two middle categories
MaxSmall == 4    \* entries of the smallest category
MaxRng   == 2    \* distinct draws of a random generator
MaxRuns  == 2    \* runs of an entry point on the same tree
MaxSteel == 16   \* images in the steel directory of a pipeline run
MaxAluminum == 5 \* images in the aluminum directory of a pipeline run
MaxSpoiled == 11 \* samples of a pipeline tree that share one defect
LeadMax  == 7    \* a manifest holds fewer than 2^LeadMax entries
MaxMetric == 2   \* largest brightness, contrast, sharpness or saturation of a photo
MaxThreshold == 2 \* largest threshold of a configuration
MaxNear  == 1    \* box corners lie within MaxNear pixels of 0, a third, the edge
MaxImages == 2   \* images in a validated corpus
MaxEqual == 12   \* largest category of a small manifest of equal categories
LargeCategory == 166  \* size of each category of a large manifest

----------------------------------------------------------------------------
(* Generic helpers *)
Min2(a, b) == IF a < b THEN a ELSE b

Range(s) == {s[i] : i \in 1..Len(s)}

RECURSIVE SumSeq(_)
SumSeq(s) == IF s = <<>> THEN 0 ELSE Head(s) + SumSeq(Tail(s))

RECURSIVE SetToSortedSeq(_)
SetToSortedSeq(S) ==
    IF S = {} THEN <<>>
    ELSE LET m == CHOOSE x \in S : \A y \in S : x <= y
         IN  <<m>> \o SetToSortedSeq(S \ {m})

\* s rotated left by k places
Rotate(s, k) ==
    IF s = <<>> THEN s
    ELSE [j \in 1..Len(s) |-> s[((j - 1 + k) % Len(s)) + 1]]

Ceil(num, den) == (num + den - 1) \div den

----------------------------------------------------------------------------
(* Class vocabulary *)
\* np.unique sorts the labels: the classes of a split come in this order
SortedMaterials == <<"aluminum", "brass", "copper", "steel", "unknown">>

MaterialRank(m) == CHOOSE i \in 1..Len(SortedMaterials) : SortedMaterials[i] = m

class_mapping == [m \in {"steel", "aluminum", "copper", "brass"} |->
                    CASE m = "steel" -> 0 [] m = "aluminum" -> 1
                      [] m = "copper" -> 2 [] m = "brass" -> 3]

----------------------------------------------------------------------------
(* sklearn.model_selection.train_test_split(df, stratify=labels)           *)
(* rows: sequence of ids; lab: id -> label; r: the generator's draw.       *)

\* rng.choice(inds, size = k, replace = False)
RngChoice(r, inds, k) ==
    LET s == Rotate(SetToSortedSeq(inds), r) IN {s[j] : j \in 1..k}

\* rng.permutation(s)
RngPermutation(r, s) == Rotate(s, r)

(* numpy computes continuous = class_counts / class_counts.sum() * n_draws in    *)
(* float64.  Remainders that differ as rationals differ by at least 1/total,  *)
(* far above the rounding error, so their order is the rationals' order.      *)
(* Remainders that are equal as rationals are ordered by their float64        *)
(* values, which FloatFrac computes: fl(fl(c / total) * n_draws) minus its    *)
(* integer part (that subtraction is exact).  A 53-bit significand is kept in *)
(* three limbs <<high, middle, low>>, the lower two of 20 bits each.          *)
Limb == 2^20

RECURSIVE LeadPos(_, _)
\* position of the first 1 among the binary digits of c / s (0 < c < s)
LeadPos(c, s) == IF 2 * c >= s THEN 1 ELSE 1 + LeadPos(2 * c, s)

RECURSIVE BitLen(_)
BitLen(x) == IF x = 0 THEN 0 ELSE 1 + BitLen(x \div 2)

\* <<h, m, l>> with the carries of the lower limbs moved up
Carry(h, m, l) ==
    LET m1 == m + (l \div Limb)
    IN  <<h + (m1 \div Limb), m1 % Limb, l % Limb>>

\* fl(c / total) given p = LeadPos(c, total): the 53-bit significand M with
\* c / total ~ M * 2^-(p + 52)
QuotientDigits(c, total, p) ==
    LET t0   == c * 2^(p + 12)
        r1   == t0 % total
        r2   == (r1 * Limb) % total
        r3   == (r2 * Limb) % total
        low  == (r2 * Limb) \div total
        up   == (2 * r3) \div total = 1 /\ ((2 * r3) % total # 0 \/ low % 2 = 1)
    IN  Carry(t0 \div total, (r1 * Limb) \div total, low + (IF up THEN 1 ELSE 0))

FloatQuotient(c, total) == QuotientDigits(c, total, LeadPos(c, total))

\* prod rounded to 53 binary digits, drop being the digits beyond the 53rd
RoundDigits(prod, drop) ==
    LET unit == 2^drop
        cut  == prod[3] % unit
        odd  == (prod[3] \div unit) % 2 = 1
        up   == 2 * cut > unit \/ (2 * cut = unit /\ odd)
    IN  Carry(prod[1], prod[2], prod[3] - cut + (IF up THEN unit ELSE 0))

RoundToFloat(prod) ==
    IF BitLen(prod[1]) <= 13 THEN prod ELSE RoundDigits(prod, BitLen(prod[1]) - 13)

\* fl(M * n) for a significand M and a small integer n, on M's scale
FloatTimes(M, n) == RoundToFloat(Carry(M[1] * n, M[2] * n, M[3] * n))

\* the part after the point of cont, a value of FloatTimes on the scale of
\* LeadPos p, in units of 2^-(LeadMax + 52)
FracDigits(cont, p) ==
    Carry((cont[1] % 2^(p + 12)) * 2^(LeadMax - p), cont[2] * 2^(LeadMax - p),
          cont[3] * 2^(LeadMax - p))

\* the part after the point of the float64 value fl(fl(c / total) * n), in
\* units of 2^-(LeadMax + 52) (0 < c < total)
FloatFrac(c, total, n) ==
    FracDigits(FloatTimes(FloatQuotient(c, total), n), LeadPos(c, total))

\* f < g, for two values of FloatFrac
FracLess(f, g) ==
    \/ f[1] < g[1]
    \/ f[1] = g[1] /\ f[2] < g[2]
    \/ f[1] = g[1] /\ f[2] = g[2] /\ f[3] < g[3]

\* the classes of tied whose float64 remainder frac is the largest
LargestFrac(tied, frac) == {i \in tied : \A j \in tied : ~FracLess(frac[i], frac[j])}

\* np.where(remainder == value): among the classes whose remainders are equal
\* as rationals, those whose float64 remainders are the largest
TiedInds(tied, class_counts, n_draws, need_to_add) ==
    IF \/ Cardinality(tied) <= need_to_add
       \/ Cardinality({class_counts[i] : i \in tied}) = 1
    THEN tied
    ELSE LargestFrac(tied, [i \in tied |->
                               FloatFrac(class_counts[i], SumSeq(class_counts), n_draws)])

\* the pending classes with the largest remainder
LargestRemainder(rem, pending) ==
    {i \in pending : \A j \in pending : rem[j] <= rem[i]}

\* floored with one more draw for add_now classes of inds, chosen by the generator
AddOne(floored, inds, add_now, r) ==
    [i \in DOMAIN floored |->
        IF i \in RngChoice(r, inds, add_now) THEN floored[i] + 1 ELSE floored[i]]

RECURSIVE AddByRemainder(_, _, _, _, _, _, _)

\* one turn of the loop, for the classes inds of the largest remainder
AddInds(floored, rem, class_counts, n_draws, pending, need_to_add, r, inds) ==
    AddByRemainder(AddOne(floored, inds, Min2(Cardinality(inds), need_to_add), r),
                   rem, class_counts, n_draws, pending \ inds,
                   need_to_add - Min2(Cardinality(inds), need_to_add), r)

\* the loop of _approximate_mode over the remainders, largest first;
\* rem[i] is the remainder's numerator over the common denominator
AddByRemainder(floored, rem, class_counts, n_draws, pending, need_to_add, r) ==
    IF need_to_add = 0 \/ pending = {} THEN floored
    ELSE AddInds(floored, rem, class_counts, n_draws, pending, need_to_add, r,
                 TiedInds(LargestRemainder(rem, pending), class_counts, n_draws,
                          need_to_add))

\* _approximate_mode(class_counts, n_draws, rng)
ApproximateMode(class_counts, n_draws, r) ==
    LET total   == SumSeq(class_counts)
        K       == Len(class_counts)
        floored == [i \in 1..K |-> (class_counts[i] * n_draws) \div total]
        rem     == [i \in 1..K |-> (class_counts[i] * n_draws) % total]
    IN  IF total = 0 THEN class_counts
        ELSE AddByRemainder(floored, rem, class_counts, n_draws, 1..K,
                            n_draws - SumSeq(floored), r)

RECURSIVE Concat(_)
Concat(ss) == IF ss = <<>> THEN <<>> ELSE Head(ss) \o Concat(Tail(ss))

\* np.unique(y, return_inverse=True): the rows of each class, classes sorted
ClassIndices(rows, lab) ==
    LET classes == SetToSortedSeq({MaterialRank(lab[rows[i]]) : i \in 1..Len(rows)})
        InClass(k) == LET Is(id) == MaterialRank(lab[id]) = classes[k]
                      IN  SelectSeq(rows, Is)
    IN  [k \in 1..Len(classes) |-> InClass(k)]

\* the rows of both sides: n_i[k] and t_i[k] rows of each permuted class
TakeRows(class_indices, n_i, t_i, r) ==
    LET K    == Len(class_indices)
        perm == [k \in 1..K |-> RngPermutation(r, class_indices[k])]
    IN  [error |-> FALSE,
         train |-> RngPermutation(r, Concat([k \in 1..K |-> SubSeq(perm[k], 1, n_i[k])])),
         test  |-> RngPermutation(r, Concat([k \in 1..K |->
                              SubSeq(perm[k], n_i[k] + 1, n_i[k] + t_i[k])]))]

\* t_i = _approximate_mode(class_counts - n_i, n_test, rng)
AllocateTest(class_indices, n_i, n_test, r) ==
    TakeRows(class_indices, n_i,
             ApproximateMode([k \in 1..Len(class_indices) |->
                                 Len(class_indices[k]) - n_i[k]], n_test, r), r)

\* the checks of _iter_indices, then n_i = _approximate_mode(class_counts, n_train, rng)
SplitClasses(class_indices, n_train, n_test, r) ==
    IF \/ \E k \in 1..Len(class_indices) : Len(class_indices[k]) < 2
       \/ n_train < Len(class_indices)
       \/ n_test < Len(class_indices)
    THEN [error |-> TRUE, train |-> <<>>, test |-> <<>>]
    ELSE AllocateTest(class_indices,
                      ApproximateMode([k \in 1..Len(class_indices) |->
                                          Len(class_indices[k])], n_train, r),
                      n_test, r)

\* StratifiedShuffleSplit._iter_indices, one split
StratifiedShuffleSplit(rows, lab, n_train, n_test, r) ==
    SplitClasses(ClassIndices(rows, lab), n_train, n_test, r)

\* a size that is not given (None); a given size is <<num, den>>
NoSize == <<>>

\* _validate_shuffle_split: <<n_train, n_test>>
ValidateShuffleSplit(n, test_size, train_size) ==
    IF train_size = NoSize
    THEN <<n - Ceil(test_size[1] * n, test_size[2]), Ceil(test_size[1] * n, test_size[2])>>
    ELSE <<(train_size[1] * n) \div train_size[2],
           n - ((train_size[1] * n) \div train_size[2])>>

\* train_test_split(rows, test_size, train_size, stratify = lab, random_state)
TrainTestSplit(rows, lab, test_size, train_size, r) ==
    IF Len(rows) = 0 \/ ValidateShuffleSplit(Len(rows), test_size, train_size)[1] = 0
    THEN [error |-> TRUE, train |-> <<>>, test |-> <<>>]
    ELSE StratifiedShuffleSplit(rows, lab,
                                ValidateShuffleSplit(Len(rows), test_size, train_size)[1],
                                ValidateShuffleSplit(Len(rows), test_size, train_size)[2], r)

----------------------------------------------------------------------------
(* _convert_to_yolo_format: the label line                                  *)
(* A coordinate is the float64 quotient v / d printed with "{:.6f}"; it is  *)
(* kept as the integer number of millionths the line shows.                 *)
img_width  == 640
img_height == 480

Micro == 1000000

Abs(x) == IF x < 0 THEN -x ELSE x

RECURSIVE GCD(_, _)
GCD(a, b) == IF b = 0 THEN a ELSE GCD(b, a % b)

RECURSIVE Pow2Mod(_, _)
\* 2^k mod d
Pow2Mod(k, d) ==
    IF k = 0 THEN 1 % d
    ELSE LET h == Pow2Mod(k \div 2, d)
         IN  (((h * h) % d) * (IF k % 2 = 1 THEN 2 ELSE 1)) % d

\* sign of fl(v / d) - v / d for integers v, d > 0: which way the float64
\* division rounds (0: the quotient is exact)
FloatDivDir(v, d) ==
    LET q0   == v \div d
        r0   == v % d
        k    == IF q0 > 0 THEN 53 - BitLen(q0) ELSE LeadPos(r0, d) + 52
        prev1 == (r0 * Pow2Mod(k - 1, d)) % d
        last == (2 * prev1) \div d              \* lowest digit kept
        left == (2 * prev1) % d
        half == (2 * left) \div d = 1
        rest == (2 * left) % d # 0
    IN  IF r0 = 0 THEN 0
        ELSE IF left = 0 THEN 0
        ELSE IF half /\ (rest \/ last = 1) THEN 1 ELSE -1

\* Format6 printing two decimals ("{:.2f}") instead of six
Format2(v, d) ==
    LET num == v * 100
        q   == num \div d
        r   == num % d
    IN  (IF 2 * r < d THEN q ELSE q + 1) * (Micro \div 100)

\* "{:.6f}".format(v / d) for integers v >= 0, d > 0, in millionths: the
\* decimal nearest to the float64 value; a decimal tie goes the way the
\* division rounded, and to the even digit when the quotient is exact
Format6(v, d) ==
    LET g   == GCD(Micro, d)
        num == v * (Micro \div g)
        den == d \div g
        q   == num \div den
        r   == num % den
        dir == FloatDivDir(v, d)
    IN  IF 2 * r < den THEN q
        ELSE IF 2 * r > den THEN q + 1
        ELSE IF dir > 0 THEN q + 1
        ELSE IF dir < 0 THEN q
        ELSE IF q % 2 = 0 THEN q ELSE q + 1

\* the same for a signed numerator
Fmt6(v, d) == IF v < 0 THEN -Format6(-v, d) ELSE Format6(v, d)

\* class_mapping.get(material, 0)
ClassId(m) == IF m \in DOMAIN class_mapping THEN class_mapping[m] ELSE 0

\* what _convert_to_yolo_format returns when it caught an exception
None == [none |-> TRUE]

\* _convert_to_yolo_format(item): None when unpacking the box raises
ConvertToYolo(material, bbox) ==
    IF Len(bbox) # 4 THEN None
    ELSE LET x_min == bbox[1]
             y_min == bbox[2]
             x_max == bbox[3]
             y_max == bbox[4]
         IN  [material |-> material,
              class_id |-> ClassId(material),
              x_center |-> Fmt6(x_min + x_max, 2 * img_width),
              y_center |-> Fmt6(y_min + y_max, 2 * img_height),
              width    |-> Fmt6(x_max - x_min, img_width),
              height   |-> Fmt6(y_max - y_min, img_height)]

----------------------------------------------------------------------------
(* The source tree and the entry points *)
Entries == {"process_data", "data_processor", "colab"}

\* order in which the directories are enumerated
DirOrder == <<"steel", "aluminum", "copper", "brass">>

\* the annotation of a sample declares a material_type, or none
Undeclared == "undeclared"

MakeDir(m, c) ==
    [j \in 1..c |-> [dir |-> m, name |-> <<m, j>>, kind |-> "ok", material_type |-> Undeclared]]

MakeTree(counts) == Concat([d \in 1..Len(DirOrder) |-> MakeDir(DirOrder[d], counts[d])])

\* materials of the training configuration (data_processor.py self.materials)
materials == {"steel", "aluminum", "copper", "brass"}

\* _detect_material_type: the last path part that names a material
DetectMaterialType(s) == IF s.dir \in materials THEN s.dir ELSE "unknown"

\* the stratification label of a row, per entry point
MaterialOf(e, s) ==
    CASE e = "process_data"   ->           \* annotation.get('material_type', item['material'])
               IF s.material_type = Undeclared THEN s.dir ELSE s.material_type
      [] e = "colab"          -> s.dir     \* material_dir.name
      [] e = "data_processor" -> DetectMaterialType(s)

Labels(e, t) == [id \in 1..Len(t) |-> MaterialOf(e, t[id])]

\* ratios of the training configuration (dataset.train_split, val_split, test_split)
TrainSplitPct == 70
ValSplitPct   == 20
TestSplitPct  == 10

\* the sizes an entry point passes to its first train_test_split call
FirstSizes(e) ==
    IF e = "data_processor"
    THEN [test_size |-> NoSize, train_size |-> <<TrainSplitPct, 100>>]
    ELSE [test_size |-> <<30, 100>>, train_size |-> NoSize]

\* the sizes an entry point passes to its second call
SecondSizes(e) ==
    CASE e = "process_data"   -> [test_size |-> <<33, 100>>, train_size |-> NoSize]
      [] e = "colab"          -> [test_size |-> <<50, 100>>, train_size |-> NoSize]
      [] e = "data_processor" ->
           [test_size |-> NoSize, train_size |-> <<ValSplitPct, ValSplitPct + TestSplitPct>>]

\* train_df, temp_df = train_test_split(df, ...)
FirstSplit(e, rows, lab, r) ==
    TrainTestSplit(rows, lab, FirstSizes(e).test_size, FirstSizes(e).train_size, r)

\* the three frames, given the halves of the first call and of the second
Frames(first, second) ==
    [error |-> second.error, train |-> first.train, temp |-> first.test,
     val |-> second.train, test |-> second.test]

\* val_df, test_df = train_test_split(temp_df, ...)
SecondSplit(e, lab, r, first) ==
    IF first.error
    THEN [error |-> TRUE, train |-> <<>>, temp |-> <<>>, val |-> <<>>, test |-> <<>>]
    ELSE Frames(first, TrainTestSplit(first.test, lab, SecondSizes(e).test_size,
                                      SecondSizes(e).train_size, r))

\* SplitFrames with the second call cutting the whole frame instead of temp_df
SplitFramesWholeFrame(e, rows, lab, r1, r2) ==
    SecondSplit(e, lab, r2, [FirstSplit(e, rows, lab, r1) EXCEPT !.test = rows])

\* the two train_test_split calls of an entry point; r1, r2 are the draws of
\* the generator each call uses
SplitFrames(e, rows, lab, r1, r2) ==
    SecondSplit(e, lab, r2, FirstSplit(e, rows, lab, r1))

\* the draws an entry point's two calls may make: random_state=42 builds the
\* same generator for both calls; colab passes no random_state, so both calls
\* draw from numpy's global generator, whose state at the first call is any
\* g and has moved on at the second
Draws(e) ==
    IF e = "colab" THEN {<<g, (g + 1) % MaxRng>> : g \in 0..(MaxRng - 1)}
    ELSE {<<rng42, rng42>>}

----------------------------------------------------------------------------
(* _assess_image_quality and _calculate_quality_score                       *)
(* Metrics and thresholds are whole numbers of one unit; a score is the     *)
(* exact fraction <<numerator, denominator>> of the value the code computes. *)

\* min(metric / threshold, 1.0)
NormalizedScore(metric, threshold) ==
    IF metric >= threshold THEN <<1, 1>> ELSE <<metric, threshold>>

\* reference_score = 1.0 if has_reference else 0.5, with 1.5 for the bonus
ReferenceBonus(has_reference) == IF has_reference THEN <<3, 2>> ELSE <<1, 2>>

\* reference_score = 1.0 if has_reference else 0.5
ReferenceScore(has_reference) == IF has_reference THEN <<1, 1>> ELSE <<1, 2>>

\* weights = [0.2, 0.2, 0.3, 0.2, 0.1], in tenths
weights == <<2, 2, 3, 2, 1>>

\* np.average(scores, weights=weights) of five fractions
Average(scores, w) ==
    LET D == scores[1][2] * scores[2][2] * scores[3][2] * scores[4][2] * scores[5][2]
    IN  <<SumSeq([i \in 1..5 |-> w[i] * scores[i][1] * (D \div scores[i][2])]),
          D * SumSeq(w)>>

\* _calculate_quality_score
CalculateQualityScore(brightness, contrast, blurriness, saturation, has_reference, th) ==
    Average(<<NormalizedScore(brightness, th.brightness_threshold),
              NormalizedScore(contrast, th.contrast_threshold),
              NormalizedScore(blurriness, th.blur_threshold),
              NormalizedScore(saturation, th.saturation_threshold),
              ReferenceScore(has_reference)>>, weights)

\* the metrics of the except branch, with a neutral score of one half
HalfMetrics ==
    [brightness |-> 0, contrast |-> 0, blurriness |-> 0, saturation |-> 0,
     resolution_width |-> 0, resolution_height |-> 0, aspect_ratio |-> <<0, 1>>,
     has_reference_object |-> FALSE, overall_score |-> <<1, 2>>]

\* the metrics of the except branch (data_processor.py 294-300)
ZeroMetrics ==
    [brightness |-> 0, contrast |-> 0, blurriness |-> 0, saturation |-> 0,
     resolution_width |-> 0, resolution_height |-> 0, aspect_ratio |-> <<0, 1>>,
     has_reference_object |-> FALSE, overall_score |-> <<0, 1>>]

\* _detect_reference_object
DetectReferenceObject(photo, th) == photo.width > th.min_resolution

\* the try branch of _assess_image_quality
MeasuredMetrics(photo, th) ==
    [brightness |-> photo.brightness, contrast |-> photo.contrast,
     blurriness |-> photo.blurriness, saturation |-> photo.saturation,
     resolution_width |-> photo.width, resolution_height |-> photo.height,
     aspect_ratio |-> <<photo.width, photo.height>>,
     has_reference_object |-> DetectReferenceObject(photo, th),
     overall_score |-> CalculateQualityScore(photo.brightness, photo.contrast,
                           photo.blurriness, photo.saturation,
                           DetectReferenceObject(photo, th), th)]

\* _assess_image_quality: photo.decodable is "ok", "none" (cv2.imread returns
\* None) or "error" (a later call raises)
AssessImageQuality(photo, th) ==
    IF photo.decodable = "ok" THEN MeasuredMetrics(photo, th) ELSE ZeroMetrics

\* score >= num / den
ScoreAtLeast(score, num, den) == score[1] * den >= num * score[2]

\* a photograph that scores 1 under SomeThresholds, and one that is all black
GoodPhoto ==
    [decodable |-> "ok", brightness |-> 2, contrast |-> 2, blurriness |-> 2,
     saturation |-> 2, width |-> 2, height |-> 1]

DarkPhoto ==
    [decodable |-> "ok", brightness |-> 0, contrast |-> 0, blurriness |-> 0,
     saturation |-> 0, width |-> 1, height |-> 1]

----------------------------------------------------------------------------
(* The configuration and the idle assessor *)

\* a configuration with positive thresholds, in the units of the metrics
SomeThresholds ==
    [brightness_threshold |-> 2, contrast_threshold |-> 2, blur_threshold |-> 2,
     saturation_threshold |-> 2, min_resolution |-> 1]

\* validation_results as validate_dataset creates it
NoResults == [total_images |-> 0, valid_images |-> 0, invalid_images |-> 0, issues |-> <<>>]

\* data_processor.py 101-112: the directories _setup_directories creates
directories ==
    {<<"data", "raw_images">>, <<"data", "processed_images">>,
     <<"data", "augmented_images">>, <<"data", "annotations">>, <<"data", "metrics">>,
     <<"data", "scrap_dataset", "train">>, <<"data", "scrap_dataset", "val">>,
     <<"data", "scrap_dataset", "test">>, <<"models", "checkpoints">>, <<"logs">>}

\* a directory path and the directories above it
Parents(dir_path) == {SubSeq(dir_path, 1, k) : k \in 1..Len(dir_path)}

\* Path(dir_path).mkdir(parents=True, exist_ok=True) for every dir_path
SetupDirectories(existing) == existing \cup UNION {Parents(dir_path) : dir_path \in directories}

\* the directory of the exported dataset
ScrapDataset == <<"data", "scrap_dataset">>

\* no image is being assessed or validated
NotAssessing ==
    /\ dataset_path = ScrapDataset
    /\ dirs = SetupDirectories({})
    /\ thresholds = SomeThresholds
    /\ image_files = <<>>
    /\ quality_metrics = None
    /\ validation_results = NoResults

----------------------------------------------------------------------------
(* Actions *)

\* process_data.py 74-80, data_processor.py 391-406, colab_training.py 280-282
CreateSplits ==
    /\ UNCHANGED assessVars
    /\ UNCHANGED log
    /\ pc = "split"
    /\ \E d \in Draws(entry) :
         \E f \in {SplitFrames(entry, yolo_data, Labels(entry, tree), d[1], d[2])} :
             IF f.error
             THEN /\ pc' = "failed"
                  /\ result' = "exception"
                  /\ UNCHANGED <<train_df, temp_df, val_df, test_df>>
             ELSE /\ pc' = "export"
                  /\ train_df' = f.train
                  /\ temp_df' = f.temp
                  /\ val_df' = f.val
                  /\ test_df' = f.test
                  /\ UNCHANGED result
    /\ UNCHANGED <<entry, tree, run, all_data, yolo_data, bbox_data, files, todo,
                   rng42, prev, clock, box, dims, label>>

\* the same manifest is split again (a second run on the unchanged input)
Resplit ==
    /\ UNCHANGED assessVars
    /\ UNCHANGED log
    /\ pc = "export"
    /\ run < MaxRuns
    /\ run' = run + 1
    /\ prev' = [train |-> train_df, val |-> val_df, test |-> test_df, files |-> files]
    /\ pc' = "split"
    /\ train_df' = <<>> /\ temp_df' = <<>> /\ val_df' = <<>> /\ test_df' = <<>>
    /\ UNCHANGED <<entry, tree, all_data, yolo_data, bbox_data, files, todo, result,
                   rng42, clock, box, dims, label>>

NoPrev == [train |-> <<>>, val |-> <<>>, test |-> <<>>, files |-> <<>>]

\* the manifests handed to the splitter: every sample collected and converted
InitSplit ==
    /\ NotAssessing
    /\ log = <<>>
    /\ entry \in Entries
    /\ \E a \in 0..MaxBig, b \in 0..MaxMid, c \in 0..MaxMid, d \in 0..MaxSmall :
          tree = MakeTree(<<a, b, c, d>>)
    /\ Len(tree) >= (IF entry = "colab" THEN 21 ELSE IF entry = "process_data" THEN 20 ELSE 1)
    /\ all_data = [i \in 1..Len(tree) |-> i]
    /\ yolo_data = all_data
    /\ bbox_data = <<>>
    /\ pc = "split"
    /\ run = 1
    /\ train_df = <<>> /\ temp_df = <<>> /\ val_df = <<>> /\ test_df = <<>>
    /\ files = <<>>
    /\ todo = <<>>
    /\ result = "none"
    /\ rng42 \in (IF entry = "colab" THEN {0} ELSE 0..(MaxRng - 1))
    /\ prev = NoPrev
    /\ clock = 0
    /\ box = <<>> /\ dims = <<>> /\ label = None

NextSplit == CreateSplits \/ Resplit

SpecSplit == InitSplit /\ [][NextSplit]_vars

----------------------------------------------------------------------------
(* Properties of the splitter (SpecSplit) *)

SplitDone == pc = "export"

\* number of rows of the manifest with stratification label m
CategoryCount(m) ==
    Cardinality({i \in 1..Len(yolo_data) : MaterialOf(entry, tree[yolo_data[i]]) = m})

Has(frame, m) == \E i \in 1..Len(frame) : MaterialOf(entry, tree[frame[i]]) = m

NoDuplicates(frame) == Cardinality(Range(frame)) = Len(frame)

\* C1: whenever the splitter succeeds, train, val and test partition the
\* manifest: every entry is in exactly one split, no entry is in two, and the
\* sizes add up to the size of the manifest.
C1_SplitsPartitionManifest ==
    SplitDone =>
        /\ Range(train_df) \cup Range(val_df) \cup Range(test_df) = Range(yolo_data)
        /\ Range(train_df) \cap Range(val_df) = {}
        /\ Range(train_df) \cap Range(test_df) = {}
        /\ Range(val_df) \cap Range(test_df) = {}
        /\ NoDuplicates(train_df) /\ NoDuplicates(val_df) /\ NoDuplicates(test_df)
        /\ Len(train_df) + Len(val_df) + Len(test_df) = Len(yolo_data)

C1_Witness ==
    /\ SplitDone
    /\ Len(yolo_data) >= 30
    /\ CategoryCount("steel") > 0 /\ CategoryCount("aluminum") > 0
    /\ CategoryCount("brass") > 0
    /\ Len(train_df) > 0 /\ Len(val_df) > 0 /\ Len(test_df) > 0

\* C2: whenever the splitter succeeds, every category with at least 3 entries
\* in the manifest has at least one entry in each of train, val and test.
C2_EveryCategoryInEverySplit ==
    SplitDone =>
        \A m \in Range(SortedMaterials) :
            CategoryCount(m) >= 3 =>
                Has(train_df, m) /\ Has(val_df, m) /\ Has(test_df, m)

\* C3: splitting the same manifest a second time gives the same train, val
\* and test membership, in every entry point.
C3_ResplitIsIdentical ==
    (SplitDone /\ run = 2) =>
        /\ Range(train_df) = Range(prev.train)
        /\ Range(val_df) = Range(prev.val)
        /\ Range(test_df) = Range(prev.test)

\* C4: whenever a category of the manifest has fewer than 3 members, the
\* splitter fails instead of producing a split.
C4_SmallCategoryFails ==
    (\E m \in Range(SortedMaterials) : CategoryCount(m) \in 1..2) => ~SplitDone

----------------------------------------------------------------------------
(* The normalizer on its own (SpecNorm) *)

\* dimensions photographs come in
ImageSizes == {<<640, 480>>, <<1280, 960>>}

CoordsNear(w) ==
    (0..MaxNear) \cup ((w \div 3 - MaxNear)..(w \div 3 + MaxNear)) \cup ((w - MaxNear)..w)

Boxes(d) ==
    {<<x1, y1, x2, y2>> : x1 \in CoordsNear(d[1]), y1 \in CoordsNear(d[2]),
                          x2 \in CoordsNear(d[1]), y2 \in CoordsNear(d[2])}

\* what the annotation of the item says about its material
DeclaredTypes == {Undeclared, "aluminum", "titanium"}

InitNorm ==
    /\ NotAssessing
    /\ log = <<>>
    /\ entry = "process_data"
    /\ \E declared \in DeclaredTypes :
           tree = [MakeTree(<<1, 0, 0, 0>>) EXCEPT ![1].material_type = declared]
    /\ dims \in ImageSizes
    /\ box \in Boxes(dims) \cup {<<80, 60, 480>>}
    /\ label = None
    /\ pc = "norm"
    /\ run = 1
    /\ all_data = <<1>>
    /\ yolo_data = <<>>
    /\ bbox_data = <<>>
    /\ train_df = <<>> /\ temp_df = <<>> /\ val_df = <<>> /\ test_df = <<>>
    /\ files = <<>>
    /\ todo = <<>>
    /\ result = "none"
    /\ rng42 = 0
    /\ prev = NoPrev
    /\ clock = 0

\* process_data.py 130-160 on one item
Normalize ==
    /\ UNCHANGED assessVars
    /\ UNCHANGED log
    /\ pc = "norm"
    /\ label' = ConvertToYolo(MaterialOf(entry, tree[1]), box)
    /\ pc' = "normed"
    /\ UNCHANGED <<entry, tree, run, all_data, yolo_data, bbox_data, train_df, temp_df,
                   val_df, test_df, files, todo, result, rng42, prev, clock, box, dims>>

\* a converted item goes on to the manifest, a failed one is dropped (64-66)
KeepOrDrop ==
    /\ UNCHANGED assessVars
    /\ UNCHANGED log
    /\ pc = "normed"
    /\ pc' = "kept"
    /\ yolo_data' = IF label = None THEN yolo_data ELSE Append(yolo_data, 1)
    /\ bbox_data' = IF label = None THEN bbox_data ELSE (1 :> label)
    /\ UNCHANGED <<entry, tree, run, all_data, train_df, temp_df, val_df, test_df,
                   files, todo, result, rng42, prev, clock, box, dims, label>>

NextNorm == Normalize \/ KeepOrDrop

SpecNorm == InitNorm /\ [][NextNorm]_vars

Normalized == pc \in {"normed", "kept"} /\ label # None

InUnit(x) == 0 <= x /\ x <= Micro

\* C8: the normalized box is x_center = (x_min+x_max)/(2W), y_center =
\* (y_min+y_max)/(2H), width = (x_max-x_min)/W, height = (y_max-y_min)/H with
\* (W, H) the dimensions of the annotated image.
C8_NormalizedByImageDimensions ==
    Normalized =>
        /\ label.x_center = Fmt6(box[1] + box[3], 2 * dims[1])
        /\ label.y_center = Fmt6(box[2] + box[4], 2 * dims[2])
        /\ label.width = Fmt6(box[3] - box[1], dims[1])
        /\ label.height = Fmt6(box[4] - box[2], dims[2])

\* C9: an annotation with a normalized component outside [0,1] is rejected
\* and kept out of the manifest: no label carries such a component.
C9_OutOfRangeIsRejected ==
    /\ Normalized =>
          /\ InUnit(label.x_center) /\ InUnit(label.y_center)
          /\ InUnit(label.width) /\ InUnit(label.height)
    /\ \A id \in DOMAIN bbox_data :
          /\ InUnit(bbox_data[id].x_center) /\ InUnit(bbox_data[id].y_center)
          /\ InUnit(bbox_data[id].width) /\ InUnit(bbox_data[id].height)

\* the box lies inside the image the normalizer assumes, corners in order
BoxInImage ==
    /\ Len(box) = 4
    /\ 0 <= box[1] /\ box[1] <= box[3] /\ box[3] <= img_width
    /\ 0 <= box[2] /\ box[2] <= box[4] /\ box[4] <= img_height

\* |((2c + sign*w) * full / (2 * Micro)) - pixel| <= 1
BackWithinOnePixel(c, w, sign, full, pixel) ==
    Abs((2 * c + sign * w) * full - 2 * Micro * pixel) <= 2 * Micro

----------------------------------------------------------------------------
(* Manifests of equally sized categories (SpecEqual) *)

\* a tree of k directories with c images each
EqualTree(k, c) == MakeTree([d \in 1..Len(DirOrder) |-> IF d <= k THEN c ELSE 0])

\* accepted manifests of 2 to 4 equal categories, small ones and a large one
InitEqual ==
    /\ NotAssessing
    /\ log = <<>>
    /\ entry \in {"process_data", "data_processor"}
    /\ \E kc \in ((2..Len(DirOrder)) \X (10..MaxEqual)) \cup {<<Len(DirOrder), LargeCategory>>} :
          tree = EqualTree(kc[1], kc[2])
    /\ all_data = [i \in 1..Len(tree) |-> i]
    /\ yolo_data = all_data
    /\ bbox_data = <<>>
    /\ pc = "split"
    /\ run = 1
    /\ train_df = <<>> /\ temp_df = <<>> /\ val_df = <<>> /\ test_df = <<>>
    /\ files = <<>>
    /\ todo = <<>>
    /\ result = "none"
    /\ rng42 \in 0..(MaxRng - 1)
    /\ prev = NoPrev
    /\ clock = 0
    /\ box = <<>> /\ dims = <<>> /\ label = None

SpecEqual == InitEqual /\ [][NextSplit]_vars

\* |100 * size - pct * n| <= 100, that is |size - (pct / 100) * n| <= 1
WithinOne(frame, pct) == Abs(100 * Len(frame) - pct * Len(yolo_data)) <= 100

\* C19: a manifest of n entries in equally sized categories is split into
\* train, val and test whose sizes are within 1 of 0.7 n, 0.2 n and 0.1 n
C19_EqualCategoriesSizesWithinOne ==
    SplitDone =>
        /\ WithinOne(train_df, TrainSplitPct)
        /\ WithinOne(val_df, ValSplitPct)
        /\ WithinOne(test_df, TestSplitPct)

\* C26: the category of a converted item, which is its stratification key
\* and the source of its class_id, is the name of the directory the image
\* was collected from, and stays so when the item goes on to the manifest
C26_CategoryIsParentDirectory ==
    /\ Normalized =>
          /\ label.material = tree[1].dir
          /\ label.class_id = class_mapping[tree[1].dir]
    /\ \A id \in DOMAIN bbox_data :
          /\ bbox_data[id].material = tree[id].dir
          /\ bbox_data[id].class_id = class_mapping[tree[id].dir]

----------------------------------------------------------------------------
(* The same tree enumerated in another order (SpecOrder) *)

\* orders in which iterdir() and glob() may list the same files
Orders == {"same", "reversed", "swapped"}

\* the tree t as the file system lists it in order o: as before, everything
\* backwards, or the first directory after the others
Enumerate(t, o) ==
    CASE o = "same"     -> t
      [] o = "reversed" -> [i \in 1..Len(t) |-> t[Len(t) + 1 - i]]
      [] o = "swapped"  -> LET First(x) == x.dir = t[1].dir
                               Other(x) == x.dir # t[1].dir
                           IN  SelectSeq(t, Other) \o SelectSeq(t, First)

\* the file names of the rows of a frame
NamesOf(frame) == {tree[frame[i]].name : i \in 1..Len(frame)}

InitOrder ==
    /\ NotAssessing
    /\ log = <<>>
    /\ entry \in {"process_data", "data_processor"}
    /\ \E a \in (MaxSteel - 3)..MaxSteel, b \in (MaxAluminum - 3)..MaxAluminum :
          tree = MakeTree(<<a, b, 0, 0>>)
    /\ entry = "process_data" => Len(tree) >= 20
    /\ all_data = [i \in 1..Len(tree) |-> i]
    /\ yolo_data = all_data
    /\ bbox_data = <<>>
    /\ pc = "split"
    /\ run = 1
    /\ train_df = <<>> /\ temp_df = <<>> /\ val_df = <<>> /\ test_df = <<>>
    /\ files = <<>>
    /\ todo = <<>>
    /\ result = "none"
    /\ rng42 \in 0..(MaxRng - 1)
    /\ prev = NoPrev
    /\ clock = 0
    /\ box = <<>> /\ dims = <<>> /\ label = None

\* the entry point is run again with the same seed on the same files, which
\* the file system now lists in some order; prev keeps the names each split
\* held
CollectReordered ==
    /\ UNCHANGED assessVars
    /\ UNCHANGED log
    /\ pc = "export"
    /\ run < MaxRuns
    /\ run' = run + 1
    /\ prev' = [train |-> NamesOf(train_df), val |-> NamesOf(val_df),
                test |-> NamesOf(test_df), files |-> files]
    /\ \E o \in Orders : tree' = Enumerate(tree, o)
    /\ pc' = "split"
    /\ train_df' = <<>> /\ temp_df' = <<>> /\ val_df' = <<>> /\ test_df' = <<>>
    /\ UNCHANGED <<entry, all_data, yolo_data, bbox_data, files, todo, result,
                   rng42, clock, box, dims, label>>

NextOrder == CreateSplits \/ CollectReordered

SpecOrder == InitOrder /\ [][NextOrder]_vars

\* C30: with the same seed, a second split of the same files listed in
\* another order puts every file in the split it was in before
C30_SplitIndependentOfOrder ==
    (run = 2 /\ pc = "export") =>
        /\ NamesOf(train_df) = prev.train
        /\ NamesOf(val_df) = prev.val
        /\ NamesOf(test_df) = prev.test

----------------------------------------------------------------------------
(* The pipeline runs (Spec) *)

\* what can be wrong with one sample of the tree
Kinds == {"ok", "nojson", "badjson", "shortbbox", "bigbbox", "poor", "undecodable"}

HasJson(s)   == s.kind # "nojson"       \* json_path.exists()
JsonLoads(s) == s.kind # "badjson"      \* json.load(f) does not raise

\* the photograph in the image file of a sample
PhotoOf(s) ==
    CASE s.kind = "poor"        -> DarkPhoto
      [] s.kind = "undecodable" -> [DarkPhoto EXCEPT !.decodable = "none"]
      [] OTHER                  -> GoodPhoto

\* data_processor.py 218-221: quality_metrics.overall_score >= 0.7
QualityOk(s) == ScoreAtLeast(AssessImageQuality(PhotoOf(s), thresholds).overall_score, 7, 10)

\* annotation['bounding_box']
BoundingBox(s) ==
    CASE s.kind = "shortbbox" -> <<80, 60, 480>>
      [] s.kind = "bigbbox"   -> <<0, 0, 1280, 960>>
      [] OTHER                -> <<80, 60, 480, 360>>

\* the samples of the tree, in the order they are listed
AllIds(t) == [i \in 1..Len(t) |-> i]

\* the characters of a directory name, as iterating over str(material_dir)
\* yields them
Characters(d) ==
    CASE d = "steel"    -> <<"s", "t", "e", "e", "l">>
      [] d = "aluminum" -> <<"a", "l", "u", "m", "i", "n", "u", "m">>
      [] d = "copper"   -> <<"c", "o", "p", "p", "e", "r">>
      [] d = "brass"    -> <<"b", "r", "a", "s", "s">>
      [] d = "train"    -> <<"t", "r", "a", "i", "n">>
      [] d = "val"      -> <<"v", "a", "l">>
      [] d = "test"     -> <<"t", "e", "s", "t">>

\* process_data.py 102: not any(x in ['train', 'val', 'test'] for x in
\* str(material_dir)), where x runs over the characters of the path
IsMaterialDir(d) ==
    ~\E k \in 1..Len(Characters(d)) : Characters(d)[k] \in {"train", "val", "test"}

\* process_data.py _collect_data: the images with a readable annotation
CollectData(t) ==
    LET Keep(i) == IsMaterialDir(t[i].dir) /\ HasJson(t[i]) /\ JsonLoads(t[i])
    IN  SelectSeq(AllIds(t), Keep)

\* process_data.py 112-127: the images whose annotation exists and fails to load
UnreadableData(t) ==
    LET Bad(i) == IsMaterialDir(t[i].dir) /\ HasJson(t[i]) /\ ~JsonLoads(t[i])
    IN  SelectSeq(AllIds(t), Bad)

\* the messages printed or logged for the samples ids, in that order
Messages(ids, event) == [k \in 1..Len(ids) |-> [event |-> event, id |-> ids[k]]]

\* colab_training.py 267-277: every image
CollectAllFiles(t) == AllIds(t)

\* data_processor.py 216-241: the images that pass the quality threshold
ProcessedData(t) == LET Keep(i) == QualityOk(t[i]) IN SelectSeq(AllIds(t), Keep)

\* data_processor.py 216-241, 293-296: the images the assessor could not load
UnassessedData(t) ==
    LET Bad(i) == PhotoOf(t[i]).decodable # "ok" IN SelectSeq(AllIds(t), Bad)

\* the minimum-size test of an entry point: TRUE when the run goes on
EnoughData(e, n) == IF e = "colab" THEN n > 20 ELSE ~(n < 20)

\* file name of a sample in the export: data_processor.py 364-373 prefixes
\* the material and the time of the copy
FileStem(e, s, now) ==
    IF e = "data_processor" THEN <<DetectMaterialType(s), now, s.name[1], s.name[2]>>
    ELSE <<"", 0, s.name[1], s.name[2]>>

LabelLine(l) == <<"label", l.class_id, l.x_center, l.y_center, l.width, l.height>>

\* what f.write(row['bbox_data'] + '\\n') puts in the label file: the line
\* followed by a backslash and the letter n, not by a line feed
WrittenLabel(line) == Append(line, "\\n")

\* str.strip() on the text after the last number: white space goes, other
\* characters stay
Strip(tail) == IF tail \in {"", " ", "\n"} THEN "" ELSE tail

\* content.split(): the numbers of the line, the last one with whatever
\* follows it without white space
SplitLabel(content) ==
    [i \in 1..(Len(content) - 2) |->
        [value |-> content[i + 1],
         junk  |-> IF i = Len(content) - 2 THEN Strip(content[Len(content)]) ELSE ""]]

\* check_data.py 66-89: the verdict on one label file
CheckLabel(content) ==
    IF Len(content) <= 2 THEN "empty"
    ELSE IF Len(SplitLabel(content)) # 5 THEN "wrong_count"
    ELSE IF \E i \in 1..5 : SplitLabel(content)[i].junk # "" THEN "parse_error"
    ELSE IF /\ \A i \in 2..5 : /\ 0 <= SplitLabel(content)[i].value
                               /\ SplitLabel(content)[i].value <= Micro
            /\ 0 <= SplitLabel(content)[1].value
            /\ SplitLabel(content)[1].value <= 3
         THEN "valid"
         ELSE "invalid_ranges"

DescriptorPath == <<"", <<"", 0, "data", 0>>, "yaml">>

\* train_model.py 123-129: the table of ScrapMetalDataset._material_to_idx
material_map == [m \in {"steel", "aluminum", "copper", "brass", "mixed_scrap"} |->
                    CASE m = "steel" -> 0 [] m = "aluminum" -> 1 [] m = "copper" -> 2
                      [] m = "brass" -> 3 [] m = "mixed_scrap" -> 4]

\* material_map.get(material, 0)
MaterialToIdx(m) == IF m \in DOMAIN material_map THEN material_map[m] ELSE 0

\* {v: k for k, v in table.items()}
ReverseMapping(table) ==
    [v \in {table[k] : k \in DOMAIN table} |-> CHOOSE k \in DOMAIN table : table[k] = v]

\* the names a descriptor lists literally, numbered from 0
NamesFrom(listed) == [v \in 0..(Len(listed) - 1) |-> listed[v + 1]]

\* the dataset descriptor a component writes: process_data.py 181-188,
\* colab_training.py 305-317, train_model.py 388-402 (create_data_config)
DataConfig(component) ==
    CASE component = "process_data" ->
           [train |-> "train", names |-> ReverseMapping(class_mapping),
            nc |-> Cardinality(DOMAIN class_mapping)]
      [] component = "colab" ->
           [train |-> "train",
            names |-> NamesFrom(<<"steel", "aluminum", "copper", "brass">>), nc |-> 4]
      [] component = "train_model" ->
           [train |-> "scrap_dataset/train",
            names |-> NamesFrom(<<"steel", "aluminum", "copper", "brass", "mixed_scrap">>),
            nc |-> 5]
ReportPath == <<"metrics", <<"", 0, "processing_report", 0>>, "json">>

\* the writes of one exported row, in the order the loop makes them
RowWrites(e, t, split, id, lbl, now) ==
    LET stem == FileStem(e, t[id], now)
        img  == [path |-> <<split, stem, "jpg">>, data |-> <<"image", id>>]
    IN  CASE e = "process_data" ->
               <<img, [path |-> <<split, stem, "txt">>,
                       data |-> WrittenLabel(LabelLine(lbl[id]))]>>
          [] e = "colab" ->
               IF HasJson(t[id])
               THEN <<img, [path |-> <<split, stem, "json">>, data |-> <<"annotation", id>>]>>
               ELSE <<img>>
          [] e = "data_processor" ->
               <<img, [path |-> <<split, stem, "json">>, data |-> <<"annotation", id, now>>]>>

SplitWrites(e, t, split, frame, lbl, now) ==
    Concat([i \in 1..Len(frame) |-> RowWrites(e, t, split, frame[i], lbl, now)])

\* the writes after the three splits: data.yaml (process_data.py 179-192,
\* colab_training.py 304-321) or the processing report (data_processor.py 247)
LastWrites(e, now) ==
    IF e = "data_processor"
    THEN <<[path |-> ReportPath, data |-> <<"report", now>>]>>
    ELSE <<[path |-> DescriptorPath, data |-> DataConfig(e)]>>

\* ExportWrites with the descriptor or report written before the splits
ExportWritesDescriptorFirst(e, t, tr, va, te, lbl, now) ==
    LastWrites(e, now) \o SplitWrites(e, t, "train", tr, lbl, now)
        \o SplitWrites(e, t, "val", va, lbl, now) \o SplitWrites(e, t, "test", te, lbl, now)

ExportWrites(e, t, tr, va, te, lbl, now) ==
    SplitWrites(e, t, "train", tr, lbl, now) \o SplitWrites(e, t, "val", va, lbl, now)
        \o SplitWrites(e, t, "test", te, lbl, now) \o LastWrites(e, now)

\* f with the file at path set to c
WriteFile(f, path, c) == [q \in DOMAIN f \cup {path} |-> IF q = path THEN c ELSE f[q]]

\* the data directory exists (colab_training.py 257)
DataDirExists == DOMAIN files # {}

\* process_data.py 52, colab_training.py 257-277
Collect ==
    /\ UNCHANGED assessVars
    /\ log' = IF entry = "process_data"
              THEN log \o Messages(UnreadableData(tree), "error_reading")
              ELSE log
    /\ pc = "start"
    /\ entry \in {"process_data", "colab"}
    /\ IF entry = "colab" /\ DataDirExists
       THEN /\ pc' = "write"
            /\ todo' = LastWrites(entry, clock)
            /\ UNCHANGED all_data
       ELSE /\ pc' = "check"
            /\ all_data' = IF entry = "colab" THEN CollectAllFiles(tree) ELSE CollectData(tree)
            /\ UNCHANGED todo
    /\ UNCHANGED <<entry, tree, run, yolo_data, bbox_data, train_df, temp_df, val_df,
                   test_df, files, result, rng42, prev, clock, box, dims, label>>

\* process_data.py 54-56, colab_training.py 279, 297-299
CheckSize ==
    /\ UNCHANGED assessVars
    /\ UNCHANGED log
    /\ pc = "check"
    /\ IF EnoughData(entry, Len(all_data))
       THEN /\ pc' = IF entry = "colab" THEN "split" ELSE "convert"
            /\ yolo_data' = IF entry = "colab" THEN all_data ELSE yolo_data
            /\ UNCHANGED result
       ELSE /\ pc' = "failed"
            /\ result' = "insufficient_data"
            /\ UNCHANGED yolo_data
    /\ UNCHANGED <<entry, tree, run, all_data, bbox_data, train_df, temp_df, val_df,
                   test_df, files, todo, rng42, prev, clock, box, dims, label>>

\* process_data.py 60-72
Convert ==
    /\ UNCHANGED assessVars
    /\ pc = "convert"
    /\ LET Converts(i) == ConvertToYolo(MaterialOf(entry, tree[i]), BoundingBox(tree[i])) # None
           Fails(i) == ~Converts(i)
           kept == SelectSeq(all_data, Converts)
       IN  /\ yolo_data' = kept
           /\ log' = log \o Messages(SelectSeq(all_data, Fails), "error_converting")
           /\ bbox_data' = [i \in Range(kept) |->
                               ConvertToYolo(MaterialOf(entry, tree[i]), BoundingBox(tree[i]))]
           /\ IF Len(kept) < 10
              THEN pc' = "failed" /\ result' = "insufficient_annotations"
              ELSE pc' = "split" /\ UNCHANGED result
    /\ UNCHANGED <<entry, tree, run, all_data, train_df, temp_df, val_df, test_df,
                   files, todo, rng42, prev, clock, box, dims, label>>

\* data_processor.py 211-241: every image of good quality is copied to the
\* output directory under a time-stamped name, with a generated annotation
ProcessImages ==
    /\ UNCHANGED assessVars
    /\ log' = log \o Messages(UnassessedData(tree), "quality_assessment_failed")
    /\ pc = "start"
    /\ entry = "data_processor"
    /\ LET kept == ProcessedData(tree)
           Stem(i) == FileStem(entry, tree[i], clock)
           new  == {<<"processed", Stem(i), "jpg">> : i \in Range(kept)}
                     \cup {<<"processed", Stem(i), "json">> : i \in Range(kept)}
           IdOf(q) == CHOOSE i \in Range(kept) : Stem(i) = q[2]
       IN  /\ yolo_data' = kept
           /\ all_data' = kept
           /\ files' = [q \in DOMAIN files \cup new |->
                          IF q \in new
                          THEN [state |-> "complete",
                                data  |-> IF q[3] = "jpg" THEN <<"image", IdOf(q)>>
                                          ELSE <<"annotation", IdOf(q), clock>>]
                          ELSE files[q]]
    /\ pc' = "split"
    /\ UNCHANGED <<entry, tree, run, bbox_data, train_df, temp_df, val_df, test_df,
                   todo, result, rng42, prev, clock, box, dims, label>>

\* process_data.py 83, data_processor.py 409, colab_training.py 285: the
\* export loops start
StartExport ==
    /\ UNCHANGED assessVars
    /\ UNCHANGED log
    /\ pc = "export"
    /\ todo' = ExportWrites(entry, tree, train_df, val_df, test_df, bbox_data, clock)
    /\ pc' = "write"
    /\ UNCHANGED <<entry, tree, run, all_data, yolo_data, bbox_data, train_df, temp_df,
                   val_df, test_df, files, result, rng42, prev, clock, box, dims, label>>

\* shutil.copy2(src, dst) / open(path, 'w'): the destination is created or
\* truncated in place
OpenFile ==
    /\ UNCHANGED assessVars
    /\ UNCHANGED log
    /\ pc = "write"
    /\ files' = WriteFile(files, Head(todo).path,
                          [state |-> "partial", data |-> Head(todo).data])
    /\ pc' = "writing"
    /\ UNCHANGED <<entry, tree, run, all_data, yolo_data, bbox_data, train_df, temp_df,
                   val_df, test_df, todo, result, rng42, prev, clock, box, dims, label>>

\* the rest of the content is written and the file closed; after the last
\* write the run returns
CloseFile ==
    /\ UNCHANGED assessVars
    /\ UNCHANGED log
    /\ pc = "writing"
    /\ files' = WriteFile(files, Head(todo).path,
                          [state |-> "complete", data |-> Head(todo).data])
    /\ todo' = Tail(todo)
    /\ IF Tail(todo) = <<>>
       THEN pc' = "done" /\ result' = "success"
       ELSE pc' = "write" /\ UNCHANGED result
    /\ UNCHANGED <<entry, tree, run, all_data, yolo_data, bbox_data, train_df, temp_df,
                   val_df, test_df, rng42, prev, clock, box, dims, label>>

\* the process is killed during the export
Crash ==
    /\ UNCHANGED assessVars
    /\ UNCHANGED log
    /\ pc \in {"write", "writing"}
    /\ pc' = "crashed"
    /\ result' = "killed"
    /\ UNCHANGED <<entry, tree, run, all_data, yolo_data, bbox_data, train_df, temp_df,
                   val_df, test_df, files, todo, rng42, prev, clock, box, dims, label>>

\* the entry point is run again on the unchanged tree, later
Rerun ==
    /\ UNCHANGED assessVars
    /\ UNCHANGED log
    /\ pc = "done"
    /\ run < MaxRuns
    /\ run' = run + 1
    /\ clock' = clock + 1
    /\ prev' = [train |-> train_df, val |-> val_df, test |-> test_df, files |-> files]
    /\ pc' = "start"
    /\ result' = "none"
    /\ all_data' = <<>> /\ yolo_data' = <<>> /\ bbox_data' = <<>>
    /\ train_df' = <<>> /\ temp_df' = <<>> /\ val_df' = <<>> /\ test_df' = <<>>
    /\ todo' = <<>>
    /\ UNCHANGED <<entry, tree, files, rng42, box, dims, label>>

\* a tree of two directories whose first n samples are of kind k
PipelineTree(a, b, k, n) ==
    LET t == MakeTree(<<a, b, 0, 0>>)
    IN  [i \in 1..Len(t) |-> IF i <= n THEN [t[i] EXCEPT !.kind = k] ELSE t[i]]

\* the tree t with files named by a counter only (img_1.jpg in every
\* directory) instead of by material and counter (generate_demo_data.py 68)
NumberedNames(t) == [i \in 1..Len(t) |-> [t[i] EXCEPT !.name = <<"img", t[i].name[2]>>]]

Init ==
    /\ NotAssessing
    /\ log = <<>>
    /\ entry \in Entries
    /\ \E a \in (MaxSteel - 3)..MaxSteel, b \in (MaxAluminum - 1)..MaxAluminum,
          k \in Kinds, n \in {1, MaxSpoiled}, numbered \in BOOLEAN :
            /\ numbered => (k = "ok" /\ n = 1)
            /\ tree = IF numbered THEN NumberedNames(PipelineTree(a, b, k, n))
                      ELSE PipelineTree(a, b, k, n)
    /\ pc = "start"
    /\ run = 1
    /\ all_data = <<>> /\ yolo_data = <<>> /\ bbox_data = <<>>
    /\ train_df = <<>> /\ temp_df = <<>> /\ val_df = <<>> /\ test_df = <<>>
    /\ files = <<>>
    /\ todo = <<>>
    /\ result = "none"
    /\ rng42 \in (IF entry = "colab" THEN {0} ELSE 0..(MaxRng - 1))
    /\ prev = NoPrev
    /\ clock = 0
    /\ box = <<>> /\ dims = <<>> /\ label = None

\* train_model.py 434-442: the trainer is started on the exported dataset
\* (--model yolo_v8 --task detection) and writes its data configuration
CreateDataConfig ==
    /\ UNCHANGED assessVars
    /\ UNCHANGED log
    /\ pc = "done"
    /\ files' = WriteFile(files, DescriptorPath,
                          [state |-> "complete", data |-> DataConfig("train_model")])
    /\ pc' = "trained"
    /\ UNCHANGED <<entry, tree, run, all_data, yolo_data, bbox_data, train_df, temp_df,
                   val_df, test_df, todo, result, rng42, prev, clock, box, dims, label>>

Next ==
    \/ Collect \/ CheckSize \/ Convert \/ ProcessImages \/ CreateSplits
    \/ StartExport \/ OpenFile \/ CloseFile \/ Crash \/ Rerun \/ CreateDataConfig

Spec == Init /\ [][Next]_vars

----------------------------------------------------------------------------
(* Properties of the pipeline runs (Spec) *)

\* the size test of the entry point has been passed or failed
SizeChecked == run = 1 /\ pc \notin {"start", "check"}

\* C5: in process_data and colab, the entry points that test the size, a run is
\* rejected for insufficient data exactly when fewer than 20 entries were
\* collected, and a rejected run has exported nothing
C5_RejectedIffBelowMinimum ==
    (entry \in {"process_data", "colab"} /\ SizeChecked) =>
        /\ (result = "insufficient_data") <=> (Len(all_data) < 20)
        /\ (result = "insufficient_data") => (files = <<>>)

\* C6: at every moment of an export, a crash included, every file present at
\* a final export path is complete
C6_NoPartialFileVisible ==
    \A q \in DOMAIN files : files[q].state = "complete"

\* the files of the output and dataset directories (the report is kept elsewhere)
OutputFiles(f) == [q \in {q \in DOMAIN f : q[1] # "metrics"} |-> f[q]]

\* C7: after a second run on the unchanged tree the output directories hold
\* the same file names with the same contents as after the first run
C7_ReexportLeavesSameFiles ==
    (run = 2 /\ pc = "done") => (OutputFiles(files) = OutputFiles(prev.files))

\* the sample fails in the stage of entry point e that reads it: the
\* annotation is missing, unreadable or cannot be converted
\* (process_data.py 112-127, 134-160), the image cannot be decoded
\* (data_processor.py 218, 255-257)
FailsIn(e, s) ==
    CASE e = "process_data"   -> s.kind \in {"nojson", "badjson", "shortbbox"}
      [] e = "data_processor" -> s.kind = "undecodable"
      [] OTHER                -> FALSE

\* number of messages the run has printed or logged about sample i
SkipCount(i) == Cardinality({k \in 1..Len(log) : log[k].id = i})

\* the first run has built its manifest
ManifestBuilt == run = 1 /\ pc \in {"split", "export", "write", "writing", "done"}

\* C14: once the manifest is built, every sample that failed in collection
\* or processing is out of the manifest and counted as skipped once, and
\* every sample without a fault is in the manifest
C14_FailedSamplesSkippedAndCounted ==
    ManifestBuilt =>
        \A i \in 1..Len(tree) :
            /\ FailsIn(entry, tree[i]) => (i \notin Range(yolo_data) /\ SkipCount(i) = 1)
            /\ tree[i].kind = "ok" => i \in Range(yolo_data)

\* C17: the image of every exported entry was assessed with an overall
\* score of at least 0.7, whichever entry point built the export
C17_ExportedEntriesPassedQuality ==
    \A q \in DOMAIN files :
        (q[1] \in {"train", "val", "test"} /\ q[3] = "jpg") =>
            QualityOk(tree[files[q].data[2]])

\* the Normalizer has marked its result, or reported, that the category of
\* the item is unknown
FlaggedUnknown ==
    \/ "unknown_category" \in DOMAIN label
    \/ \E k \in 1..Len(log) : log[k].event = "unknown_category"

\* C18: an item whose annotation declares a category outside the
\* vocabulary is converted, gets the default class_id 0 and is flagged as
\* having an unknown category
C18_UnknownCategoryDefaultedAndFlagged ==
    (pc \in {"normed", "kept"} /\ Len(box) = 4
       /\ MaterialOf(entry, tree[1]) \notin DOMAIN class_mapping) =>
        /\ label # None
        /\ label.class_id = 0
        /\ FlaggedUnknown

\* the first run of one of the two command-line entry points has ended
RunEnded == run = 1 /\ pc \in {"done", "failed"} /\ entry \in {"process_data", "data_processor"}

\* exit status of the process: main() calls sys.exit only for missing
\* arguments, so a run that returns exits with 0 and one that ends in an
\* uncaught exception with 1
ExitStatus == IF result = "exception" THEN 1 ELSE 0

\* the run has written its processing report (data_processor.py 247) or
\* printed its dataset summary (process_data.py 93)
ReportProduced ==
    \/ ReportPath \in DOMAIN files /\ files[ReportPath].state = "complete"
    \/ entry = "process_data" /\ result = "success"

\* C20: a run that has ended has produced its report exactly when it exits
\* with status 0: the runs without a report are the aborted ones, and those
\* are the runs with a non-zero exit status
C20_ReportUnlessNonZeroExit ==
    RunEnded => (ReportProduced <=> ExitStatus = 0)

\* a dataset descriptor is in the output directory
DescriptorWritten ==
    DescriptorPath \in DOMAIN files /\ files[DescriptorPath].state = "complete"

\* C22: the components share one category table: the converter and the
\* trainer give every category name the same class_id, and every
\* descriptor written declares the names of that table and its size as nc
C22_OneSharedCategoryTable ==
    DescriptorWritten =>
        /\ \A m \in DOMAIN class_mapping \cup DOMAIN material_map : ClassId(m) = MaterialToIdx(m)
        /\ files[DescriptorPath].data.names = ReverseMapping(class_mapping)
        /\ files[DescriptorPath].data.nc = Cardinality(DOMAIN class_mapping)

\* C23: once an export is done, starting the trainer changes neither the
\* descriptor nor anything else in the export layout
C23_TrainerOnlyReadsExport ==
    [][(pc = "done" /\ pc' = "trained") => OutputFiles(files') = OutputFiles(files)]_vars

\* the first run was aborted: the manifest was too small, or the splitter
\* raised because a category was too small to split
Aborted ==
    /\ run = 1 /\ pc = "failed"
    /\ result \in {"insufficient_data", "insufficient_annotations", "exception"}

\* C24: when a run is aborted for a manifest or a category that is too
\* small, it has written no image, label or descriptor file to the output
\* directory
C24_NothingWrittenBeforeAbort ==
    Aborted => DOMAIN OutputFiles(files) = {}

\* C25: when process_data.py hands its list to the splitter, after the
\* items that failed conversion were dropped, the list has at least 20 rows
C25_SplitterGetsAtLeastMinimum ==
    (entry = "process_data" /\ pc = "split") => Len(yolo_data) >= 20

\* the files with extension ext in the directory of a split
SplitFiles(split, ext) == {q \in DOMAIN files : q[1] = split /\ q[3] = ext}

\* extension of the label or annotation an entry point writes next to an image
LabelSuffix(e) == IF e = "process_data" THEN "txt" ELSE "json"

\* the directory of a split holds one image and one label per row of frame
OnePerEntry(split, frame) ==
    /\ Cardinality(SplitFiles(split, "jpg")) = Len(frame)
    /\ Cardinality(SplitFiles(split, LabelSuffix(entry))) = Len(frame)

\* C27: after the first successful export of process_data.py or
\* data_processor.py each split directory holds exactly one image and one
\* label per entry assigned to it, so no two entries share an output path
C27_OneImageAndLabelPerEntry ==
    (run = 1 /\ pc = "done" /\ entry \in {"process_data", "data_processor"}) =>
        /\ OnePerEntry("train", train_df)
        /\ OnePerEntry("val", val_df)
        /\ OnePerEntry("test", test_df)

\* the image and the label of every row of frame are in the directory of
\* the split, completely written
SplitPresent(split, frame) ==
    \A i \in 1..Len(frame) :
        \A ext \in {"jpg", "txt"} :
            LET q == <<split, FileStem(entry, tree[frame[i]], clock), ext>>
            IN  q \in DOMAIN files /\ files[q].state = "complete"

\* C28: in the first export of process_data.py, into an empty output
\* directory, whenever data.yaml exists the image and the label of every
\* entry of train, val and test are already there
C28_DescriptorAfterAllSplits ==
    (entry = "process_data" /\ run = 1 /\ DescriptorPath \in DOMAIN files) =>
        /\ SplitPresent("train", train_df)
        /\ SplitPresent("val", val_df)
        /\ SplitPresent("test", test_df)

C28_Witness ==
    /\ entry = "process_data" /\ run = 1
    /\ pc = "writing"
    /\ DescriptorPath \in DOMAIN files
    /\ files[DescriptorPath].state = "partial"
    /\ Len(train_df) + Len(val_df) + Len(test_df) >= 20
    /\ SplitPresent("test", test_df)

----------------------------------------------------------------------------
(* Collection from a source root that holds exported splits (SpecSource) *)

\* a source root with a steel directory and the directories train, val and
\* test of an earlier export, whose images have annotations or not (kind k)
SourceTree(a, tr, va, te, k) ==
    LET exported == MakeDir("train", tr) \o MakeDir("val", va) \o MakeDir("test", te)
    IN  MakeDir("steel", a) \o [i \in 1..Len(exported) |-> [exported[i] EXCEPT !.kind = k]]

InitSource ==
    /\ NotAssessing
    /\ log = <<>>
    /\ entry = "process_data"
    /\ \E a \in (MaxSteel - 3)..MaxSteel, tr \in 0..MaxSmall, va \in 0..1, te \in 0..1,
          k \in {"ok", "nojson"} :
            tree = SourceTree(a, tr, va, te, k)
    /\ pc = "start"
    /\ run = 1
    /\ all_data = <<>> /\ yolo_data = <<>> /\ bbox_data = <<>>
    /\ train_df = <<>> /\ temp_df = <<>> /\ val_df = <<>> /\ test_df = <<>>
    /\ files = <<>>
    /\ todo = <<>>
    /\ result = "none"
    /\ rng42 = 0
    /\ prev = NoPrev
    /\ clock = 0
    /\ box = <<>> /\ dims = <<>> /\ label = None

NextSource == Collect \/ CheckSize \/ Convert

SpecSource == InitSource /\ [][NextSource]_vars

\* C29: no collected sample comes from a directory named train, val or test
C29_SplitDirectoriesNotCollected ==
    \A i \in 1..Len(all_data) : tree[all_data[i]].dir \notin {"train", "val", "test"}

----------------------------------------------------------------------------
(* The quality assessor on its own (SpecQuality) *)

\* the photographs handed to the assessor
Photos ==
    [decodable : {"ok"}, brightness : 0..MaxMetric, contrast : 0..MaxMetric,
     blurriness : 0..MaxMetric, saturation : 0..MaxMetric, width : 1..2, height : {1}]
      \cup {[DarkPhoto EXCEPT !.decodable = "none"], [GoodPhoto EXCEPT !.decodable = "error"]}

\* the configurations with positive thresholds
Configurations ==
    [brightness_threshold : 1..MaxThreshold, contrast_threshold : 1..MaxThreshold,
     blur_threshold : 1..MaxThreshold, saturation_threshold : 1..MaxThreshold,
     min_resolution : {1}]

InitQuality ==
    /\ entry = "data_processor"
    /\ tree = <<>>
    /\ pc = "assess"
    /\ run = 1
    /\ all_data = <<>> /\ yolo_data = <<>> /\ bbox_data = <<>>
    /\ train_df = <<>> /\ temp_df = <<>> /\ val_df = <<>> /\ test_df = <<>>
    /\ files = <<>>
    /\ todo = <<>>
    /\ result = "none"
    /\ rng42 = 0
    /\ prev = NoPrev
    /\ clock = 0
    /\ box = <<>> /\ dims = <<>> /\ label = None
    /\ log = <<>>
    /\ dataset_path = ScrapDataset
    /\ dirs = SetupDirectories({})
    /\ thresholds \in Configurations
    /\ \E photo \in Photos : image_files = <<photo>>
    /\ quality_metrics = None
    /\ validation_results = NoResults

\* quality_metrics = self._assess_image_quality(str(image_file))
AssessImage ==
    /\ pc = "assess"
    /\ quality_metrics' = AssessImageQuality(Head(image_files), thresholds)
    /\ log' = IF Head(image_files).decodable = "ok" THEN log
              ELSE Append(log, [event |-> "quality_assessment_failed", id |-> 1])
    /\ pc' = "assessed"
    /\ UNCHANGED <<entry, tree, run, all_data, yolo_data, bbox_data, train_df, temp_df,
                   val_df, test_df, files, todo, result, rng42, prev, clock, box, dims,
                   label, thresholds, image_files, validation_results, dataset_path, dirs>>

NextQuality == AssessImage

SpecQuality == InitQuality /\ [][NextQuality]_vars

\* C15: for a decodable image and positive thresholds the overall score
\* lies in [0, 1]
C15_OverallScoreInUnitInterval ==
    (pc = "assessed" /\ Head(image_files).decodable = "ok") =>
        /\ quality_metrics.overall_score[2] > 0
        /\ 0 <= quality_metrics.overall_score[1]
        /\ quality_metrics.overall_score[1] <= quality_metrics.overall_score[2]

C15_Witness ==
    /\ pc = "assessed"
    /\ Head(image_files).decodable = "ok"
    /\ Head(image_files).brightness < thresholds.brightness_threshold
    /\ Head(image_files).blurriness > thresholds.blur_threshold
    /\ quality_metrics.has_reference_object
    /\ ScoreAtLeast(quality_metrics.overall_score, 7, 10)

\* C16: for an image that cannot be decoded or whose assessment raises, the
\* assessor returns all-zero metrics with score 0 and no reference object,
\* and the caller goes on
C16_AssessorFailsClosed ==
    (pc = "assessed" /\ Head(image_files).decodable # "ok") =>
        /\ quality_metrics.brightness = 0 /\ quality_metrics.contrast = 0
        /\ quality_metrics.blurriness = 0 /\ quality_metrics.saturation = 0
        /\ quality_metrics.resolution_width = 0 /\ quality_metrics.resolution_height = 0
        /\ quality_metrics.overall_score = <<0, 1>>
        /\ ~quality_metrics.has_reference_object

C16_Witness ==
    /\ pc = "assessed"
    /\ Head(image_files).decodable = "error"
    /\ quality_metrics.overall_score[1] = 0
    /\ Len(log) = 1

----------------------------------------------------------------------------
(* The validator (SpecValidate) *)

\* label files next to the images of a corpus: a well-formed one, one whose
\* class index is out of range and one whose box leaves the unit square
GoodLabel == <<"label", 1, 512300, 481200, 305000, 402500, "\n">>
BadClassLabel == <<"label", 7, 512300, 481200, 305000, 402500, "\n">>
OutOfRangeLabel == <<"label", 1, 512300, 481200, 1305000, 402500, "\n">>

\* the images of a corpus: the photograph, whether <image>.json exists (or
\* asking raises OSError) and the label file <image>.txt, if any
CorpusImages ==
    [photo : {GoodPhoto, DarkPhoto, [DarkPhoto EXCEPT !.decodable = "none"]},
     annotation : {"present", "absent", "error"},
     label : {"none", GoodLabel, BadClassLabel, OutOfRangeLabel}]

\* image_files = list(dataset_path.rglob("*.jpg")) + ...
Corpora == UNION {[1..n -> CorpusImages] : n \in 1..MaxImages}

\* data_processor.py 467-480 with both tests made on their own
RecordIssueEach(file, score, has_annotation) ==
    (IF ~ScoreAtLeast(score, 7, 10)
     THEN <<[file |-> file, issue |-> "poor_quality"]>> ELSE <<>>)
      \o (IF ~has_annotation
          THEN <<[file |-> file, issue |-> "missing_annotation"]>> ELSE <<>>)

\* data_processor.py 467-480: the issue recorded for an image that is not
\* valid
RecordIssue(file, score, has_annotation) ==
    IF ~ScoreAtLeast(score, 7, 10)
    THEN <<[file |-> file, issue |-> "poor_quality"]>>
    ELSE IF ~has_annotation
         THEN <<[file |-> file, issue |-> "missing_annotation"]>>
         ELSE <<>>

\* data_processor.py 449-487: one pass of the loop over image_files
ValidateOne(results, file, image, th) ==
    LET counted == [results EXCEPT !.total_images = @ + 1]
        q == AssessImageQuality(image.photo, th)
    IN  IF image.annotation = "error"
        THEN [counted EXCEPT !.invalid_images = @ + 1,
                             !.issues = Append(@, [file |-> file, issue |-> "OSError"])]
        ELSE IF ScoreAtLeast(q.overall_score, 7, 10) /\ image.annotation = "present"
             THEN [counted EXCEPT !.valid_images = @ + 1]
             ELSE [counted EXCEPT !.invalid_images = @ + 1,
                                  !.issues = @ \o RecordIssue(file, q.overall_score,
                                                             image.annotation = "present")]

ValidationReportPath == <<"metrics", <<"", 0, "validation_report", 0>>, "json">>

InitValidate ==
    /\ entry = "data_processor"
    /\ tree = <<>>
    /\ pc = "validate"
    /\ run = 1
    /\ all_data = <<>> /\ yolo_data = <<>> /\ bbox_data = <<>>
    /\ train_df = <<>> /\ temp_df = <<>> /\ val_df = <<>> /\ test_df = <<>>
    /\ files = <<>>
    /\ todo = <<>>
    /\ result = "none"
    /\ rng42 = 0
    /\ prev = NoPrev
    /\ clock = 0
    /\ box = <<>> /\ dims = <<>> /\ label = None
    /\ log = <<>>
    /\ dataset_path = ScrapDataset
    /\ dirs = SetupDirectories({})
    /\ thresholds = SomeThresholds
    /\ image_files \in Corpora
    /\ quality_metrics = None
    /\ validation_results = NoResults

\* data_processor.py 449-487: the next image of image_files is validated
ValidateImage ==
    /\ pc = "validate"
    /\ validation_results.total_images < Len(image_files)
    /\ LET file == validation_results.total_images + 1
       IN  /\ quality_metrics' = AssessImageQuality(image_files[file].photo, thresholds)
           /\ validation_results' =
                  ValidateOne(validation_results, file, image_files[file], thresholds)
           /\ log' = IF image_files[file].photo.decodable = "ok" THEN log
                     ELSE Append(log, [event |-> "quality_assessment_failed", id |-> file])
    /\ UNCHANGED <<entry, tree, pc, run, all_data, yolo_data, bbox_data, train_df,
                   temp_df, val_df, test_df, files, todo, result, rng42, prev, clock,
                   box, dims, label, thresholds, image_files, dataset_path, dirs>>

\* data_processor.py 490-494: the validation report is written and the
\* results returned
SaveValidationReport ==
    /\ pc = "validate"
    /\ validation_results.total_images = Len(image_files)
    /\ files' = WriteFile(files, ValidationReportPath,
                          [state |-> "complete", data |-> <<"validation", validation_results>>])
    /\ pc' = "validated"
    /\ result' = "success"
    /\ UNCHANGED <<entry, tree, run, all_data, yolo_data, bbox_data, train_df, temp_df,
                   val_df, test_df, todo, rng42, prev, clock, box, dims, label, log,
                   thresholds, image_files, quality_metrics, validation_results,
                   dataset_path, dirs>>

NextValidate == ValidateImage \/ SaveValidationReport

SpecValidate == InitValidate /\ [][NextValidate]_vars

\* the validator has looked at image file and recorded no issue for it
CountedValid(file) ==
    /\ file <= validation_results.total_images
    /\ \A k \in 1..Len(validation_results.issues) : validation_results.issues[k].file # file

\* the label file exists and passes the label-format check
LabelAcceptable(image) == image.label # "none" /\ CheckLabel(image.label) = "valid"

\* C12: after validation an image is counted valid if and only if its label
\* file exists, has five numeric tokens, a valid class index and a box
\* within [0, 1]
C12_ValidIffLabelWellFormed ==
    pc = "validated" =>
        \A file \in 1..Len(image_files) :
            CountedValid(file) <=> LabelAcceptable(image_files[file])

\* C13: the validator reaches the end of every corpus; every image looked
\* at is counted once, as valid or as invalid, and each invalid image has
\* exactly one issue recorded
C13_EveryImageCountedOnce ==
    /\ validation_results.total_images <= Len(image_files)
    /\ pc = "validated" => validation_results.total_images = Len(image_files)
    /\ validation_results.total_images =
           validation_results.valid_images + validation_results.invalid_images
    /\ Len(validation_results.issues) = validation_results.invalid_images
    /\ \A j, k \in 1..Len(validation_results.issues) :
           validation_results.issues[j].file = validation_results.issues[k].file => j = k

C13_Witness ==
    /\ pc = "validated"
    /\ Len(image_files) = MaxImages
    /\ image_files[1].photo.decodable = "none"
    /\ image_files[1].annotation = "absent"
    /\ image_files[2].annotation = "error"
    /\ validation_results.invalid_images = 2

----------------------------------------------------------------------------
(* The validator and the directories around the corpus (SpecCorpus) *)

\* corpus roots a validator is pointed at: the exported dataset, the data
\* directory and a directory elsewhere
DatasetPaths == {ScrapDataset, <<"data">>, <<"corpus">>}

\* what exists besides the corpus root before the validator is constructed:
\* nothing, the train directory of an export, or the whole structure
ExistingDirs == {{}, Parents(<<"data", "scrap_dataset", "train">>), SetupDirectories({})}

\* directory of ValidationReportPath
ValidationReportDir == <<"data", "metrics">>

InitCorpus ==
    /\ entry = "data_processor"
    /\ tree = <<>>
    /\ pc = "construct"
    /\ run = 1
    /\ all_data = <<>> /\ yolo_data = <<>> /\ bbox_data = <<>>
    /\ train_df = <<>> /\ temp_df = <<>> /\ val_df = <<>> /\ test_df = <<>>
    /\ files = <<>>
    /\ todo = <<>>
    /\ result = "none"
    /\ rng42 = 0
    /\ prev = NoPrev
    /\ clock = 0
    /\ box = <<>> /\ dims = <<>> /\ label = None
    /\ log = <<>>
    /\ dataset_path \in DatasetPaths
    /\ \E existing \in ExistingDirs : dirs = Parents(dataset_path) \cup existing
    /\ thresholds = SomeThresholds
    /\ image_files \in [1..1 -> CorpusImages]
    /\ quality_metrics = None
    /\ validation_results = NoResults

\* data_processor.py 79-90, 558: processor = ScrapMetalDataProcessor()
Construct ==
    /\ pc = "construct"
    /\ dirs' = SetupDirectories(dirs)
    /\ pc' = "validate"
    /\ UNCHANGED <<entry, tree, run, all_data, yolo_data, bbox_data, train_df, temp_df,
                   val_df, test_df, files, todo, result, rng42, prev, clock, box, dims,
                   label, log, thresholds, image_files, quality_metrics,
                   validation_results, dataset_path>>

NextCorpus == Construct \/ ValidateImage \/ SaveValidationReport

SpecCorpus == InitCorpus /\ [][NextCorpus]_vars

\* path p lies below the directory root
Under(root, p) == Len(p) > Len(root) /\ SubSeq(p, 1, Len(root)) = root

\* the step writes the validation report
ReportWritten ==
    /\ ValidationReportPath \in DOMAIN files'
    /\ ValidationReportPath \in DOMAIN files => files'[ValidationReportPath] # files[ValidationReportPath]

\* C21: no step of constructing the validator and validating a corpus
\* creates a directory or writes a file below the corpus root
C21_ValidatorLeavesCorpusUnchanged ==
    [][/\ \A p \in dirs' \ dirs : ~Under(dataset_path, p)
       /\ ReportWritten =>
              ~Under(dataset_path, Append(ValidationReportDir, "validation_report.json"))]_vars

\* C11: every label file the exporter has written is one line of five
\* numeric tokens, a class index and four coordinates, and passes the
\* label-format check
C11_ExportedLabelsPassFormatCheck ==
    \A q \in DOMAIN files :
        (q[3] = "txt" /\ files[q].state = "complete") =>
            CheckLabel(files[q].data) = "valid"

====
